---- MODULE Spec2Model ----
(***************************************************************************)
(* The RPC dispatcher of src/rpc.rs: handle_rpc_call and its three         *)
(* method-specific dispatchers.                                            *)
(*                                                                         *)
(* A string is a sequence of atoms.  An atom is a literal chunk of text    *)
(* (written here as the text itself): "/" and "?" are the single           *)
(* characters, "messages" is the eight letters, "\"limit\":10" is the JSON *)
(* member text and so on.  No atom is a prefix of another one and none     *)
(* contains "/" or "?" except those two themselves, so equality, prefix    *)
(* tests and splitting of the text are equality, prefix tests and          *)
(* splitting of the atom sequence.                                         *)
(***************************************************************************)
EXTENDS Integers, Sequences, FiniteSets, TLC

VARIABLES pc, rpc_call, uri, entered, decodes, invoked, outcome

vars == <<pc, rpc_call, uri, entered, decodes, invoked, outcome>>

(* ------------------------------ bounds --------------------------------- *)

\* Longest run of free atoms appended to a route prefix in an endpoint.
MaxTail == 3

\* Number of dispatch tasks that may be in flight together.
NTasks == 2

Tasks == 1..NTasks

(* ------------------------------ strings -------------------------------- *)

\* str::starts_with
StartsWith(s, p) ==
    /\ Len(p) <= Len(s)
    /\ SubSeq(s, 1, Len(p)) = p

\* Index of the first occurrence of atom a in s, 0 when there is none.
IndexOf(s, a) ==
    IF \E i \in 1..Len(s) : s[i] = a
    THEN CHOOSE i \in 1..Len(s) : s[i] = a /\ \A j \in 1..(i - 1) : s[j] # a
    ELSE 0

\* &s[1..] : the text after its first character.
DropFirst(s) == SubSeq(s, 2, Len(s))

\* str::split(sep).collect() : the pieces between the separators; a text with
\* n separators has n + 1 pieces, empty ones included.
RECURSIVE Split(_, _)
Split(s, sep) ==
    LET i == IndexOf(s, sep) IN
    IF i = 0
    THEN <<s>>
    ELSE <<SubSeq(s, 1, i - 1)>> \o Split(SubSeq(s, i + 1, Len(s)), sep)

\* All sequences over S of length at most n.
RECURSIVE SeqsUpTo(_, _)
SeqsUpTo(S, n) ==
    IF n = 0
    THEN {<<>>}
    ELSE LET shorter == SeqsUpTo(S, n - 1) IN
         shorter \cup {Append(s, a) : s \in {x \in shorter : Len(x) = n - 1}, a \in S}

(* ------------------------------- atoms --------------------------------- *)

\* The decimal numeral of 2^63: one more than i64::MAX, the magnitude of i64::MIN.
Pow63 == "9223372036854775808"

\* Single decimal digits.
DigitAtoms == {"7"}

\* The JSON members "key":value, each one atom; they contain double quotes.
MemberAtoms ==
    { "\"limit\":10", "\"from_server_id\":5", "\"foo\":1",
      "\"limit\":\"x\"", "\"limit\":65536", "\"limit\":null", "\"text\":\"hi\"" }

\* The same member with its quotes percent-encoded.
PercentAtoms == { "%22limit%22:10", "%22foo%22:1" }

\* JSON scalars outside an object.
ValueAtoms == { "10", "5", "null", "65536" }

\* key=value pairs of a form-encoded query, and their separator.
FormAtoms == { "limit=10", "from_server_id=5", "foo=1", "&" }

\* A space: not a URI character.
Space == " "

(* --------------------------- http::Uri parsing -------------------------- *)

\* Bytes the path scanner of http::Uri rejects (it accepts '"', '{' and '}').
InvalidPathAtoms == {Space}

\* Bytes the query scanner of http::Uri rejects: it accepts
\* 0x21, 0x24-0x3B, 0x3D and 0x3F-0x7E, which leaves out the double quote.
InvalidQueryAtoms == {Space} \cup MemberAtoms

\* Bytes the authority scanner rejects or stops at.
InvalidAuthorityAtoms ==
    {Space, "/", "?", "{", "}", "[", "]", ","} \cup MemberAtoms \cup PercentAtoms \cup FormAtoms

UriErr == [ok |-> FALSE, path |-> <<>>, has_query |-> FALSE, query |-> <<>>]

\* str::parse::<http::Uri>() for a text of the alphabet above.
\*   ""          : Err(Empty)
\*   "/..."      : origin form; the path runs to the first '?', the query
\*                 after it (Some("") when nothing follows the '?')
\*   anything else, with no scheme: an authority, which must be the whole text
\* Uri::path() is "" for an authority-only URI and Uri::query() is None.
ParseUri(endpoint) ==
    IF endpoint = <<>> THEN UriErr
    ELSE IF endpoint[1] = "/"
    THEN LET q == IndexOf(endpoint, "?")
             p == IF q = 0 THEN endpoint ELSE SubSeq(endpoint, 1, q - 1)
             r == IF q = 0 THEN <<>> ELSE SubSeq(endpoint, q + 1, Len(endpoint))
         IN IF \/ \E i \in 1..Len(p) : p[i] \in InvalidPathAtoms
               \/ \E i \in 1..Len(r) : r[i] \in InvalidQueryAtoms
            THEN UriErr
            ELSE [ok |-> TRUE, path |-> p, has_query |-> q # 0, query |-> r]
    ELSE IF \E i \in 1..Len(endpoint) : endpoint[i] \in InvalidAuthorityAtoms
         THEN UriErr
         ELSE [ok |-> TRUE, path |-> <<>>, has_query |-> FALSE, query |-> <<>>]

(* ------------------------------ decoding ------------------------------- *)

\* Option<T>
None == [some |-> FALSE, val |-> 0]
Some(v) == [some |-> TRUE, val |-> v]

\* struct QueryOptions
QueryOptions(l, f) == [limit |-> l, from_server_id |-> f]

DefaultQueryOptions == QueryOptions(None, None)

\* A JSON scalar: its type and, for a number, its value.
JsonValue(t, n) == [type |-> t, n |-> n]

\* The scalar a value atom spells.
ValueOf(a) ==
    CASE a = "10" -> JsonValue("int", 10)
      [] a = "5" -> JsonValue("int", 5)
      [] a = "65536" -> JsonValue("int", 65536)
      [] a = "null" -> JsonValue("null", 0)

\* The key and the value a member atom spells.
MemberOf(a) ==
    CASE a = "\"limit\":10" -> [key |-> "limit", value |-> JsonValue("int", 10)]
      [] a = "\"from_server_id\":5" -> [key |-> "from_server_id", value |-> JsonValue("int", 5)]
      [] a = "\"foo\":1" -> [key |-> "foo", value |-> JsonValue("int", 1)]
      [] a = "\"limit\":\"x\"" -> [key |-> "limit", value |-> JsonValue("string", 0)]
      [] a = "\"limit\":65536" -> [key |-> "limit", value |-> JsonValue("int", 65536)]
      [] a = "\"limit\":null" -> [key |-> "limit", value |-> JsonValue("null", 0)]
      [] a = "\"text\":\"hi\"" -> [key |-> "text", value |-> JsonValue("string", 0)]

U16Max == 65535

\* Deserialize for Option<u16> and Option<i64>: null is None, a number in
\* range is Some, anything else is an error.  (Every number of the alphabet
\* is within i64.)
DecodeOption(v, isU16) ==
    CASE v.type = "null" -> [ok |-> TRUE, opt |-> None]
      [] v.type = "int" /\ (~isU16 \/ (0 <= v.n /\ v.n <= U16Max)) -> [ok |-> TRUE, opt |-> Some(v.n)]
      [] OTHER -> [ok |-> FALSE, opt |-> None]

\* The items of a JSON object or array body: items separated by single commas.
\* Err when the text between the brackets is not of that shape.
Items(inner, itemAtoms) ==
    IF inner = <<>> THEN [ok |-> TRUE, items |-> <<>>]
    ELSE IF /\ Len(inner) % 2 = 1
            /\ \A i \in 1..Len(inner) :
                   IF i % 2 = 1 THEN inner[i] \in itemAtoms ELSE inner[i] = ","
         THEN [ok |-> TRUE, items |-> [k \in 1..((Len(inner) + 1) \div 2) |-> inner[2 * k - 1]]]
         ELSE [ok |-> FALSE, items |-> <<>>]

Bracketed(s, open, close) ==
    /\ Len(s) >= 2
    /\ s[1] = open
    /\ s[Len(s)] = close

Inner(s) == SubSeq(s, 2, Len(s) - 1)

DecodeErr == [ok |-> FALSE, options |-> DefaultQueryOptions]

\* The visit_map that #[derive(Deserialize)] writes for QueryOptions, run over
\* the members of an object in order: a second `limit` or `from_server_id` is
\* a duplicate-field error, a value of the wrong type or out of range is an
\* error, and a member with any other key is read and dropped (the struct
\* does not say deny_unknown_fields).  A field never met is None.
RECURSIVE VisitMap(_, _, _, _, _)
VisitMap(members, i, limit, from, seen) ==
    IF i > Len(members)
    THEN [ok |-> TRUE, options |-> QueryOptions(limit, from)]
    ELSE LET m == MemberOf(members[i]) IN
         CASE m.key = "limit" ->
                 LET d == DecodeOption(m.value, TRUE) IN
                 IF "limit" \in seen \/ ~d.ok
                 THEN DecodeErr
                 ELSE VisitMap(members, i + 1, d.opt, from, seen \cup {"limit"})
           [] m.key = "from_server_id" ->
                 LET d == DecodeOption(m.value, FALSE) IN
                 IF "from_server_id" \in seen \/ ~d.ok
                 THEN DecodeErr
                 ELSE VisitMap(members, i + 1, limit, d.opt, seen \cup {"from_server_id"})
           [] OTHER -> VisitMap(members, i + 1, limit, from, seen)

\* The derived visit_seq: the fields in declaration order, exactly two of them.
VisitSeq(values) ==
    IF Len(values) # 2
    THEN DecodeErr
    ELSE LET l == DecodeOption(ValueOf(values[1]), TRUE)
             f == DecodeOption(ValueOf(values[2]), FALSE)
         IN IF l.ok /\ f.ok
            THEN [ok |-> TRUE, options |-> QueryOptions(l.opt, f.opt)]
            ELSE DecodeErr

\* The value a key=value pair of a form-encoded query assigns.
FormPairOf(a) ==
    CASE a = "limit=10" -> [key |-> "limit", value |-> JsonValue("int", 10)]
      [] a = "from_server_id=5" -> [key |-> "from_server_id", value |-> JsonValue("int", 5)]
      [] a = "foo=1" -> [key |-> "foo", value |-> JsonValue("int", 1)]

\* FromStrQueryOptions decoding the query as key=value&key=value pairs, a
\* pair with any other key being skipped.
FromStrQueryOptionsForm(query) ==
    IF /\ Len(query) % 2 = 1
       /\ \A i \in 1..Len(query) :
              IF i % 2 = 1 THEN query[i] \in FormAtoms \ {"&"} ELSE query[i] = "&"
    THEN LET pairs == {FormPairOf(query[i]) : i \in {j \in 1..Len(query) : j % 2 = 1}}
             l == {p \in pairs : p.key = "limit"}
             f == {p \in pairs : p.key = "from_server_id"}
         IN [ok |-> TRUE,
             options |-> QueryOptions(
                 IF l = {} THEN None ELSE Some((CHOOSE p \in l : TRUE).value.n),
                 IF f = {} THEN None ELSE Some((CHOOSE p \in f : TRUE).value.n))]
    ELSE DecodeErr

\* serde_json::from_str::<QueryOptions>(query): the whole text must be one
\* JSON object (decoded by field name) or one JSON array (decoded by
\* position); any other text, the empty text and a form-encoded
\* key=value&key=value text included, is a syntax error.
FromStrQueryOptions(query) ==
    IF Bracketed(query, "{", "}")
    THEN LET it == Items(Inner(query), MemberAtoms) IN
         IF it.ok THEN VisitMap(it.items, 1, None, None, {}) ELSE DecodeErr
    ELSE IF Bracketed(query, "[", "]")
    THEN LET it == Items(Inner(query), ValueAtoms) IN
         IF it.ok THEN VisitSeq(it.items) ELSE DecodeErr
    ELSE DecodeErr

\* serde_json::from_str::<models::Message>(body): a JSON object that carries
\* the message text; the decoded message is its members.
FromStrMessage(body) ==
    LET it == Items(Inner(body), MemberAtoms) IN
    IF /\ Bracketed(body, "{", "}")
       /\ it.ok
       /\ Cardinality({i \in 1..Len(it.items) : MemberOf(it.items[i]).key = "text"}) = 1
    THEN [ok |-> TRUE, message |-> it.items]
    ELSE [ok |-> FALSE, message |-> <<>>]

(* ------------------------- str::parse::<i64>() -------------------------- *)

\* A parsed i64, held as its canonical numeral: the sign and the digits.
I64(neg, digits) == [neg |-> neg, digits |-> digits]

NoId == I64(FALSE, <<>>)

ParseIntErr == [ok |-> FALSE, value |-> NoId]

\* The decimal digits of 2^63 (the magnitude of i64::MIN) and of 2^63 - 1
\* (i64::MAX).
Pow63Digits == <<9, 2, 2, 3, 3, 7, 2, 0, 3, 6, 8, 5, 4, 7, 7, 5, 8, 0, 8>>
I64MaxDigits == <<9, 2, 2, 3, 3, 7, 2, 0, 3, 6, 8, 5, 4, 7, 7, 5, 8, 0, 7>>

\* The decimal digits an atom of a numeral spells.
DigitsOf(a) == IF a = Pow63 THEN Pow63Digits ELSE <<7>>

RECURSIVE Flatten(_)
Flatten(ds) == IF ds = <<>> THEN <<>> ELSE DigitsOf(Head(ds)) \o Flatten(Tail(ds))

\* a <= b for two numerals of the same length.
NumeralLeq(a, b) ==
    \/ a = b
    \/ \E i \in 1..Len(a) : a[i] < b[i] /\ \A j \in 1..(i - 1) : a[j] = b[j]

\* i64::from_str: an optional '-' (the '+' it also takes is not in the
\* alphabet), then one or more digits and nothing else;
\* the value must lie in -2^63 .. 2^63 - 1.  No numeral of the alphabet has a
\* leading zero, so a numeral of fewer digits than the bound is in range and
\* one of more digits is not.
ParseI64(s) ==
    LET neg == s # <<>> /\ s[1] = "-"
        ds == IF neg THEN Tail(s) ELSE s
        n == Flatten(ds)
        bound == IF neg THEN Pow63Digits ELSE I64MaxDigits
    IN IF \/ ds = <<>>
          \/ \E i \in 1..Len(ds) : ds[i] \notin DigitAtoms \cup {Pow63}
       THEN ParseIntErr
       ELSE IF \/ Len(n) < Len(bound)
               \/ Len(n) = Len(bound) /\ NumeralLeq(n, bound)
            THEN [ok |-> TRUE, value |-> I64(neg, ds)]
            ELSE ParseIntErr

(* ------------------------------- inputs -------------------------------- *)

Methods == {"GET", "POST", "DELETE", "get", "PUT", ""}

RouteNames == {"messages", "deleted_messages", "moderators", "block_list", "member_count"}

\* An endpoint starts with a route or with nothing ...
Roots == {<<>>} \cup {<<"/", r>> : r \in RouteNames}

\* ... goes on with up to MaxTail free atoms, or with one of the boundary
\* tails (the numerals around the i64 range, a character no URI holds) ...
TailAtoms == {"/", "X", "7", "-"}

BoundaryTails ==
    { <<"/", Pow63>>, <<"/", "-", Pow63>>, <<"/", "7", Pow63>>,
      <<Space>>, <<"/", Space>> }

Tails == SeqsUpTo(TailAtoms, MaxTail) \cup BoundaryTails

\* ... and ends with no query or with one of these.
Queries ==
    { <<>>,
      <<"?">>,
      <<"?", "{", "}">>,
      <<"?", "[", "10", ",", "5", "]">>,
      <<"?", "[", "65536", ",", "5", "]">>,
      <<"?", "limit=10", "&", "from_server_id=5">>,
      <<"?", "limit=10", "&", "foo=1">>,
      <<"?", "{", "\"limit\":10", ",", "\"from_server_id\":5", "}">>,
      <<"?", "{", "\"limit\":10", ",", "\"foo\":1", "}">>,
      <<"?", "{", "%22limit%22:10", ",", "%22foo%22:1", "}">> }

Endpoints == {r \o t \o q : r \in Roots, t \in Tails, q \in Queries}

Bodies == { <<"{", "\"text\":\"hi\"", "}">>, <<"hi">> }

\* struct lsrpc::RpcCall
RpcCall(m, e, b) == [method |-> m, endpoint |-> e, body |-> b]

Calls == {RpcCall(m, e, b) : m \in Methods, e \in Endpoints, b \in Bodies}

NoCall == RpcCall("", <<>>, <<>>)

(* ------------------------------ handlers ------------------------------- *)

\* One call into super::handlers: the function and the arguments it is given
\* (the fields a function does not take are left at their defaults).
Invocation(h, options, id, text) ==
    [handler |-> h, query_options |-> options, server_id |-> id, text |-> text]

NoInvocation == Invocation("none", DefaultQueryOptions, NoId, <<>>)

\* What a handler may return to the dispatcher.
HandlerResults == {"Ok", "Err"}

(* ------------------------------- actions ------------------------------- *)

Init ==
    /\ pc = [t \in Tasks |-> "idle"]
    /\ rpc_call = [t \in Tasks |-> NoCall]
    /\ uri = [t \in Tasks |-> UriErr]
    /\ entered = [t \in Tasks |-> "none"]
    /\ decodes = [t \in Tasks |-> 0]
    /\ invoked = [t \in Tasks |-> <<>>]
    /\ outcome = [t \in Tasks |-> "none"]

\* The transport hands a call to handle_rpc_call.
Receive(t, calls) ==
    /\ pc[t] = "idle"
    /\ pc' = [pc EXCEPT ![t] = "handle_rpc_call"]
    /\ \E c \in calls : rpc_call' = [rpc_call EXCEPT ![t] = c]
    /\ UNCHANGED <<uri, entered, decodes, invoked, outcome>>

\* return Err(warp::reject::custom(InvalidRequestError))
Reject(t) ==
    /\ pc' = [pc EXCEPT ![t] = "done"]
    /\ outcome' = [outcome EXCEPT ![t] = "InvalidRequest"]

\* return handlers::h(...).await : the handler is entered; its result is the
\* result of the call.
Invoke(t, inv) ==
    /\ pc' = [pc EXCEPT ![t] = "handler"]
    /\ invoked' = [invoked EXCEPT ![t] = Append(@, inv)]
    /\ UNCHANGED outcome

\* MethodBranch comparing the method without regard to case.
MethodBranchAnyCase(method) ==
    CASE method \in {"GET", "get"} -> "handle_get_rpc_call"
      [] method = "POST" -> "handle_post_rpc_call"
      [] method = "DELETE" -> "handle_delete_rpc_call"
      [] OTHER -> "none"

\* The dispatcher a method is switched to.
MethodBranch(method) ==
    CASE method = "GET" -> "handle_get_rpc_call"
      [] method = "POST" -> "handle_post_rpc_call"
      [] method = "DELETE" -> "handle_delete_rpc_call"
      [] OTHER -> "none"

\* EntryRoute switching on the method whether or not the URI parsed.
EntryRouteMethodFirst(call) ==
    [ok |-> MethodBranch(call.method) # "none",
     uri |-> ParseUri(call.endpoint),
     branch |-> MethodBranch(call.method)]

\* The verdict of handle_rpc_call on a call: the parsed URI and the dispatcher
\* the method selects; a URI that does not parse is rejected before the
\* method is looked at.
EntryRoute(call) ==
    LET u == ParseUri(call.endpoint) IN
    IF ~u.ok
    THEN [ok |-> FALSE, uri |-> u, branch |-> "none"]
    ELSE [ok |-> MethodBranch(call.method) # "none", uri |-> u,
          branch |-> MethodBranch(call.method)]

handle_rpc_call(t) ==
    /\ pc[t] = "handle_rpc_call"
    /\ LET r == EntryRoute(rpc_call[t]) IN
       /\ uri' = [uri EXCEPT ![t] = r.uri]
       /\ IF r.ok
          THEN /\ pc' = [pc EXCEPT ![t] = r.branch]
               /\ entered' = [entered EXCEPT ![t] = r.branch]
               /\ UNCHANGED outcome
          ELSE Reject(t) /\ UNCHANGED entered
    /\ UNCHANGED <<rpc_call, decodes, invoked>>

\* UriOf with the parsed URI kept in one place shared by every call.
UriOfShared(t) == uri[1]

\* The `uri` a method-specific dispatcher is passed: the one parsed from the
\* call it is dispatching.
UriOf(t) == uri[t]

\* GetRoute matching a route as a prefix of the path.
GetRoutePrefix(path) ==
    CASE StartsWith(path, <<"/", "messages">>) -> "get_messages"
      [] StartsWith(path, <<"/", "deleted_messages">>) -> "get_deleted_messages"
      [] StartsWith(path, <<"/", "moderators">>) -> "get_moderators"
      [] StartsWith(path, <<"/", "block_list">>) -> "get_banned_public_keys"
      [] StartsWith(path, <<"/", "member_count">>) -> "get_member_count"
      [] OTHER -> "none"

\* The handler an exact GET path selects, "none" for any other path.
GetRoute(path) ==
    CASE path = <<"/", "messages">> -> "get_messages"
      [] path = <<"/", "deleted_messages">> -> "get_deleted_messages"
      [] path = <<"/", "moderators">> -> "get_moderators"
      [] path = <<"/", "block_list">> -> "get_banned_public_keys"
      [] path = <<"/", "member_count">> -> "get_member_count"
      [] OTHER -> "none"

\* The handlers that are passed the query options.
TakesQueryOptions == {"get_messages", "get_deleted_messages"}

handle_get_rpc_call(t) ==
    /\ pc[t] = "handle_get_rpc_call"
    /\ LET d == IF UriOf(t).has_query
                THEN FromStrQueryOptions(UriOf(t).query)
                ELSE [ok |-> TRUE, options |-> DefaultQueryOptions]
           h == GetRoute(UriOf(t).path)
       IN /\ decodes' = [decodes EXCEPT ![t] = IF UriOf(t).has_query THEN @ + 1 ELSE @]
          /\ IF ~d.ok
             THEN Reject(t) /\ UNCHANGED invoked
             ELSE IF h = "none"
             THEN Reject(t) /\ UNCHANGED invoked
             ELSE Invoke(t, Invocation(h,
                                       IF h \in TakesQueryOptions
                                       THEN d.options ELSE DefaultQueryOptions,
                                       NoId, <<>>))
    /\ UNCHANGED <<rpc_call, uri, entered>>

\* PostRoute handing the body to insert_message although it did not decode.
PostRouteIgnoresDecodeError(path, body) ==
    IF path = <<"/", "messages">>
    THEN [ok |-> TRUE,
          inv |-> Invocation("insert_message", DefaultQueryOptions, NoId,
                             FromStrMessage(body).message),
          decodes |-> 1]
    ELSE IF path = <<"/", "block_list">>
    THEN [ok |-> TRUE,
          inv |-> Invocation("ban", DefaultQueryOptions, NoId, body),
          decodes |-> 0]
    ELSE [ok |-> FALSE, inv |-> NoInvocation, decodes |-> 0]

\* The POST dispatcher's verdict on a path and a body: the handler call it
\* makes, or none, and the number of times it ran the decoder.
PostRoute(path, body) ==
    IF path = <<"/", "messages">>
    THEN LET message == FromStrMessage(body) IN
         IF ~message.ok
         THEN [ok |-> FALSE, inv |-> NoInvocation, decodes |-> 1]
         ELSE [ok |-> TRUE,
               inv |-> Invocation("insert_message", DefaultQueryOptions, NoId, message.message),
               decodes |-> 1]
    ELSE IF path = <<"/", "block_list">>
    THEN [ok |-> TRUE,
          inv |-> Invocation("ban", DefaultQueryOptions, NoId, body),
          decodes |-> 0]
    ELSE [ok |-> FALSE, inv |-> NoInvocation, decodes |-> 0]

handle_post_rpc_call(t) ==
    /\ pc[t] = "handle_post_rpc_call"
    /\ LET r == PostRoute(UriOf(t).path, rpc_call[t].body) IN
       /\ decodes' = [decodes EXCEPT ![t] = @ + r.decodes]
       /\ IF r.ok
          THEN Invoke(t, r.inv)
          ELSE Reject(t) /\ UNCHANGED invoked
    /\ UNCHANGED <<rpc_call, uri, entered>>

\* uri.path()[1..].split("/").collect()
Components(path) == Split(DropFirst(path), "/")

\* DeleteRoute asking for at least two components instead of exactly two.
DeleteRouteAtLeastTwo(path) ==
    IF StartsWith(path, <<"/", "messages">>)
    THEN LET components == Components(path) IN
         IF Len(components) < 2
         THEN [ok |-> FALSE, inv |-> NoInvocation]
         ELSE LET server_id == ParseI64(components[2]) IN
              IF ~server_id.ok
              THEN [ok |-> FALSE, inv |-> NoInvocation]
              ELSE [ok |-> TRUE,
                    inv |-> Invocation("delete_message", DefaultQueryOptions,
                                       server_id.value, <<>>)]
    ELSE IF StartsWith(path, <<"/", "block_list">>)
    THEN LET components == Components(path) IN
         IF Len(components) < 2
         THEN [ok |-> FALSE, inv |-> NoInvocation]
         ELSE [ok |-> TRUE,
               inv |-> Invocation("unban", DefaultQueryOptions, NoId, components[2])]
    ELSE [ok |-> FALSE, inv |-> NoInvocation]

\* The DELETE dispatcher's verdict on a path: the handler call it makes, or
\* none.
DeleteRoute(path) ==
    IF StartsWith(path, <<"/", "messages">>)
    THEN LET components == Components(path) IN
         IF Len(components) # 2
         THEN [ok |-> FALSE, inv |-> NoInvocation]
         ELSE LET server_id == ParseI64(components[2]) IN
              IF ~server_id.ok
              THEN [ok |-> FALSE, inv |-> NoInvocation]
              ELSE [ok |-> TRUE,
                    inv |-> Invocation("delete_message", DefaultQueryOptions,
                                       server_id.value, <<>>)]
    ELSE IF StartsWith(path, <<"/", "block_list">>)
    THEN LET components == Components(path) IN
         IF Len(components) # 2
         THEN [ok |-> FALSE, inv |-> NoInvocation]
         ELSE [ok |-> TRUE,
               inv |-> Invocation("unban", DefaultQueryOptions, NoId, components[2])]
    ELSE [ok |-> FALSE, inv |-> NoInvocation]

handle_delete_rpc_call(t) ==
    /\ pc[t] = "handle_delete_rpc_call"
    /\ LET r == DeleteRoute(UriOf(t).path) IN
       IF r.ok
       THEN Invoke(t, r.inv)
       ELSE Reject(t) /\ UNCHANGED invoked
    /\ UNCHANGED <<rpc_call, uri, entered, decodes>>

\* HandlerReturn dispatching the call again when the handler failed.
HandlerReturnRetry(t) ==
    /\ pc[t] = "handler"
    /\ \E r \in HandlerResults :
           IF r = "Err"
           THEN pc' = [pc EXCEPT ![t] = entered[t]] /\ UNCHANGED outcome
           ELSE /\ pc' = [pc EXCEPT ![t] = "done"]
                /\ outcome' = [outcome EXCEPT ![t] = r]
    /\ UNCHANGED <<rpc_call, uri, entered, decodes, invoked>>

\* The awaited handler completes; its result is returned unchanged.
HandlerReturn(t) ==
    /\ pc[t] = "handler"
    /\ pc' = [pc EXCEPT ![t] = "done"]
    /\ \E r \in HandlerResults : outcome' = [outcome EXCEPT ![t] = r]
    /\ UNCHANGED <<rpc_call, uri, entered, decodes, invoked>>

\* The result reaches the transport; the task is free for the next call.
Return(t) ==
    /\ pc[t] = "done"
    /\ pc' = [pc EXCEPT ![t] = "idle"]
    /\ rpc_call' = [rpc_call EXCEPT ![t] = NoCall]
    /\ uri' = [uri EXCEPT ![t] = UriErr]
    /\ entered' = [entered EXCEPT ![t] = "none"]
    /\ decodes' = [decodes EXCEPT ![t] = 0]
    /\ invoked' = [invoked EXCEPT ![t] = <<>>]
    /\ outcome' = [outcome EXCEPT ![t] = "none"]

\* One task, any call of the input set.
Next ==
    \/ Receive(1, Calls)
    \/ handle_rpc_call(1)
    \/ handle_get_rpc_call(1)
    \/ handle_post_rpc_call(1)
    \/ handle_delete_rpc_call(1)
    \/ HandlerReturn(1)
    \/ Return(1)

Spec == Init /\ [][Next]_vars

\* Calls of every kind, few enough to run NTasks of them side by side.
ConcEndpoints ==
    { <<"/", "messages">>,
      <<"/", "messages", "/", "7">>,
      <<"/", "block_list", "/", "X">>,
      <<"/", "messages", "?", "[", "10", ",", "5", "]">>,
      <<"/", "messages", Space>> }

ConcCalls == {RpcCall(m, e, b) : m \in {"GET", "POST", "DELETE", "PUT"}, e \in ConcEndpoints, b \in Bodies}

\* NTasks independent tasks, one per inbound call, interleaved in any order.
NextConc ==
    \E t \in Tasks :
        \/ Receive(t, ConcCalls)
        \/ handle_rpc_call(t)
        \/ handle_get_rpc_call(t)
        \/ handle_post_rpc_call(t)
        \/ handle_delete_rpc_call(t)
        \/ HandlerReturn(t)
        \/ Return(t)

SpecConc == Init /\ [][NextConc]_vars

(* ------------------------------ properties ----------------------------- *)

\* handle_rpc_call has run on the call of task t and the dispatcher's choice
\* (a handler call or a rejection) is made.
Decided(t) == pc[t] \in {"handler", "done"}

\* The dispatcher itself rejected the call of task t, no handler having run.
Rejected(t) ==
    /\ pc[t] = "done"
    /\ outcome[t] = "InvalidRequest"
    /\ invoked[t] = <<>>

\* Task t has left handle_rpc_call.
PastEntry(t) == pc[t] \notin {"idle", "handle_rpc_call"}

\* C1: a call whose method is not exactly GET, POST or DELETE ends in
\* InvalidRequest, whatever its endpoint and body; no method-specific
\* dispatcher is entered and no handler is invoked.
C1_UnknownMethodRejected ==
    \A t \in Tasks :
        (PastEntry(t) /\ rpc_call[t].method \notin {"GET", "POST", "DELETE"})
            => (Rejected(t) /\ entered[t] = "none")

\* A call with a well-formed endpoint and a lowercase method has been rejected.
C1_Witness ==
    \E t \in Tasks :
        /\ pc[t] = "done"
        /\ rpc_call[t].method = "get"
        /\ rpc_call[t].endpoint = <<"/", "messages">>
        /\ outcome[t] = "InvalidRequest"

\* C2: a call whose endpoint does not parse as a URI ends in InvalidRequest
\* before the method is looked at: for every method, valid or not, no
\* method-specific dispatcher is entered and no handler is invoked.
C2_BadUriRejectedFirst ==
    \A t \in Tasks :
        (PastEntry(t) /\ ~ParseUri(rpc_call[t].endpoint).ok)
            => (Rejected(t) /\ entered[t] = "none" /\ decodes[t] = 0)

\* A GET call whose endpoint holds a space has been rejected.
C2_Witness ==
    \E t \in Tasks :
        /\ pc[t] = "done"
        /\ rpc_call[t].method = "GET"
        /\ rpc_call[t].endpoint = <<"/", "messages", Space>>
        /\ outcome[t] = "InvalidRequest"

\* C3: GET /messages?limit=10&from_server_id=5 ends with get_messages invoked
\* with QueryOptions {limit: 10, from_server_id: 5}, not with a rejection.
C3_FormQueryReachesHandler ==
    \A t \in Tasks :
        ( /\ Decided(t)
          /\ rpc_call[t].method = "GET"
          /\ rpc_call[t].endpoint = <<"/", "messages", "?", "limit=10", "&", "from_server_id=5">> )
            => /\ invoked[t] = <<Invocation("get_messages", QueryOptions(Some(10), Some(5)), NoId, <<>>)>>
               /\ outcome[t] # "InvalidRequest"

\* The atoms that spell a field other than limit and from_server_id.
UnknownFieldAtoms == {"\"foo\":1", "%22foo%22:1", "foo=1"}

\* The endpoint's query names a field the options do not have.
CarriesUnknownField(endpoint) ==
    \E i \in 1..Len(endpoint) : endpoint[i] \in UnknownFieldAtoms

\* C4: a GET call whose query carries a field other than limit and
\* from_server_id ends in InvalidRequest with no handler invoked.
C4_UnknownFieldRejected ==
    \A t \in Tasks :
        (PastEntry(t) /\ rpc_call[t].method = "GET" /\ CarriesUnknownField(rpc_call[t].endpoint))
            => /\ pc[t] # "handler"
               /\ invoked[t] = <<>>
               /\ pc[t] = "done" => outcome[t] = "InvalidRequest"

\* GET /messages?limit=10&foo=1 passed URI parsing, reached the query decoder
\* and was rejected there.
C4_Witness ==
    \E t \in Tasks :
        /\ pc[t] = "done"
        /\ rpc_call[t].method = "GET"
        /\ rpc_call[t].endpoint = <<"/", "messages", "?", "limit=10", "&", "foo=1">>
        /\ uri[t].ok
        /\ decodes[t] = 1
        /\ Rejected(t)

\* C5: for a DELETE call with a valid URI whose path starts with /messages,
\* delete_message is invoked, with the parsed second segment as server_id,
\* exactly when the path after its leading slash splits into two segments
\* and the second parses as an i64; in every other case the call ends in
\* InvalidRequest with no handler invoked.
C5_DeleteMessageIffTwoSegmentsAndId ==
    \A t \in Tasks :
        ( /\ Decided(t)
          /\ rpc_call[t].method = "DELETE"
          /\ uri[t].ok
          /\ StartsWith(uri[t].path, <<"/", "messages">>) )
            => LET segments == Split(DropFirst(uri[t].path), "/")
                   id == ParseI64(segments[2])
               IN IF Len(segments) = 2 /\ id.ok
                  THEN invoked[t] = <<Invocation("delete_message", DefaultQueryOptions, id.value, <<>>)>>
                  ELSE Rejected(t)

\* DELETE /messages/-9223372036854775808 invoked delete_message with i64::MIN.
C5_Witness ==
    \E t \in Tasks :
        /\ rpc_call[t].method = "DELETE"
        /\ rpc_call[t].endpoint = <<"/", "messages", "/", "-", Pow63>>
        /\ pc[t] = "done"
        /\ outcome[t] = "Ok"
        /\ invoked[t] = <<Invocation("delete_message", DefaultQueryOptions,
                                     I64(TRUE, <<Pow63>>), <<>>)>>

\* C6: a POST call to /messages whose body does not decode as a message ends
\* in InvalidRequest with insert_message never called; a call runs the
\* decoder at most once, and insert_message is invoked only after that one
\* decode succeeded.
C6_UndecodableBodyRejected ==
    \A t \in Tasks :
        /\ ( /\ Decided(t)
             /\ rpc_call[t].method = "POST"
             /\ uri[t].ok
             /\ uri[t].path = <<"/", "messages">>
             /\ ~FromStrMessage(rpc_call[t].body).ok )
               => Rejected(t)
        /\ decodes[t] <= 1
        /\ \A i \in 1..Len(invoked[t]) :
               invoked[t][i].handler = "insert_message"
                   => /\ decodes[t] = 1
                      /\ FromStrMessage(rpc_call[t].body).ok
                      /\ invoked[t][i].text = FromStrMessage(rpc_call[t].body).message

\* POST /messages with the body `hi` ran the decoder once and was rejected.
C6_Witness ==
    \E t \in Tasks :
        /\ rpc_call[t] = RpcCall("POST", <<"/", "messages">>, <<"hi">>)
        /\ decodes[t] = 1
        /\ Rejected(t)

\* C7: a call invokes at most one handler and ends in exactly one outcome: a
\* handler's result when a handler was invoked, InvalidRequest from the
\* dispatcher when none was; nothing is invoked before a rejection, nothing
\* is invoked twice and nothing is tried after a handler returns.
C7_AtMostOneHandlerOneOutcome ==
    \A t \in Tasks :
        /\ Len(invoked[t]) <= 1
        /\ pc[t] = "done" =>
               \/ outcome[t] = "InvalidRequest" /\ invoked[t] = <<>>
               \/ outcome[t] \in HandlerResults /\ Len(invoked[t]) = 1
        /\ pc[t] # "done" => outcome[t] = "none"
        /\ pc[t] = "handler" => Len(invoked[t]) = 1
        /\ pc[t] \notin {"handler", "done"} => invoked[t] = <<>>

\* A handler was invoked, failed, and the call ended with that failure.
C7_Witness ==
    \E t \in Tasks :
        /\ pc[t] = "done"
        /\ outcome[t] = "Err"
        /\ Len(invoked[t]) = 1

\* The exact-match table of the GET dispatcher.
GetTable ==
    { <<<<"/", "messages">>, "get_messages">>,
      <<<<"/", "deleted_messages">>, "get_deleted_messages">>,
      <<<<"/", "moderators">>, "get_moderators">>,
      <<<<"/", "block_list">>, "get_banned_public_keys">>,
      <<<<"/", "member_count">>, "get_member_count">> }

\* C8: for a GET call with a valid URI and no query string the handler is the
\* one the five-route table gives for exactly that path, the options passed
\* on being {None, None}; any other path ends in InvalidRequest with no
\* handler invoked.
C8_GetExactRouteTable ==
    \A t \in Tasks :
        ( /\ Decided(t)
          /\ rpc_call[t].method = "GET"
          /\ uri[t].ok
          /\ ~uri[t].has_query )
            => IF \E e \in GetTable : e[1] = uri[t].path
               THEN \E e \in GetTable :
                        /\ e[1] = uri[t].path
                        /\ invoked[t] = <<Invocation(e[2], DefaultQueryOptions, NoId, <<>>)>>
               ELSE Rejected(t)

\* GET /messages/ (a route with a trailing slash) was rejected.
C8_Witness ==
    \E t \in Tasks :
        /\ rpc_call[t].method = "GET"
        /\ rpc_call[t].endpoint = <<"/", "messages", "/">>
        /\ uri[t].ok
        /\ Rejected(t)

\* C9: a DELETE call invokes delete_message only for a path whose segments
\* are exactly [messages, id] and unban only for exactly [block_list, key];
\* a path such as /messagesX/42 ends in InvalidRequest.
C9_DeleteExactFirstSegment ==
    \A t \in Tasks :
        \A i \in 1..Len(invoked[t]) :
            LET segments == Split(DropFirst(uri[t].path), "/") IN
            /\ invoked[t][i].handler = "delete_message"
                   => Len(segments) = 2 /\ segments[1] = <<"messages">>
            /\ invoked[t][i].handler = "unban"
                   => Len(segments) = 2 /\ segments[1] = <<"block_list">>

\* C10: the dispatcher's choice for a call (the handler and its arguments, or
\* the rejection) is a function of the call alone: two tasks that were given
\* the same call have made the same choice, whatever else ran before or
\* runs beside them.
C10_SameCallSameChoice ==
    \A t1, t2 \in Tasks :
        (Decided(t1) /\ Decided(t2) /\ rpc_call[t1] = rpc_call[t2])
            => /\ invoked[t1] = invoked[t2]
               /\ Rejected(t1) <=> Rejected(t2)

\* Two tasks were given the same GET call and both chose get_messages with the
\* options {10, 5}.
C10_Witness ==
    \E t1, t2 \in Tasks :
        /\ t1 # t2
        /\ Decided(t1) /\ Decided(t2)
        /\ rpc_call[t1] = rpc_call[t2]
        /\ rpc_call[t1].method = "GET"
        /\ Len(invoked[t1]) = 1
        /\ invoked[t1][1].query_options = QueryOptions(Some(10), Some(5))

====
